---------------------------- MODULE Spec2Model ----------------------------
(***************************************************************************)
(* Model of the quantitative engine of AlphaSeeker-AI:                     *)
(*   FinanceEngine.calculate_reverse_dcf / _calculate_dcf_value            *)
(*   FinanceEngine.get_price_history      (SMA-50, SMA-200, RSI-14)        *)
(*   FinanceEngine.get_historical_growth  (revenue CAGR)                   *)
(*   app.py "Run Competitor Analysis"     (comparison table)               *)
(*   app.py "Deep Dive Valuation" tab     (over/undervaluation message)    *)
(*                                                                         *)
(* Floating-point numbers are modelled as fixed-point numbers: the integer *)
(* n stands for the real n / Scale.  Every arithmetic operation of the     *)
(* code is one fixed-point operation that rounds its exact result down to  *)
(* the grid, as a float operation rounds its exact result to a float.      *)
(* A Python value that may be None or NaN is a record [tag, v].            *)
(***************************************************************************)
EXTENDS Integers, Sequences, FiniteSets, TLC

VARIABLES
    \* ---- calculate_reverse_dcf: arguments, locals, position, result
    current_price, free_cash_flow, shares_outstanding,
    discount_rate, terminal_growth_rate,
    target_value, low, high, mid, iter, ret, pc,
    \* ---- a sweep of _calculate_dcf_value: two growth rates and their values
    growth_1, growth_2, value_1, value_2,
    \* ---- get_price_history: what the provider returns, and the result
    fetch, close, hist,
    \* ---- get_historical_growth: ticker_obj.financials, and the result
    financials, hist_growth,
    \* ---- the Competitor Matrix tab: the provider's data per ticker, the
    \* session state, the response of the peer discovery, what the run showed
    market, ticker_data, competitors_json, competitors, comp_data, status,
    \* ---- what the run passed to find_better_alternatives
    target_metrics, peers_metrics,
    \* ---- the Deep Dive Valuation tab: what it shows under the two metrics
    message

dcfVars == <<current_price, free_cash_flow, shares_outstanding,
             discount_rate, terminal_growth_rate,
             target_value, low, high, mid, iter, ret, pc>>

\* the same without the position
dcfVars_ == <<current_price, free_cash_flow, shares_outstanding,
              discount_rate, terminal_growth_rate,
              target_value, low, high, mid, iter, ret>>

sweepVars == <<growth_1, growth_2, value_1, value_2>>

indVars == <<fetch, close, hist>>

growthVars == <<financials, hist_growth>>

compVars == <<market, ticker_data, competitors_json, competitors, comp_data, status,
              target_metrics, peers_metrics>>

tabVars == <<message>>

vars == <<dcfVars, sweepVars, indVars, growthVars, compVars, tabVars>>

\* what calculate_reverse_dcf never touches
nonDcfVars == <<sweepVars, indVars, growthVars, compVars, tabVars>>

-----------------------------------------------------------------------------
(* Bounds of the model *)

\* fixed-point resolution: n stands for n / Scale
Scale == 10000
\* number of intervals of the sweep of growth rates over [-0.50, 1.00]
SweepN == 30
\* price histories: the longest one, and the close the generated shapes start at
MaxLen == 205
BasePrice == 250
\* the most revenue points of a financial statement
MaxPoints == 3
\* the most tickers of a response of the peer discovery
MaxPeers == 2

-----------------------------------------------------------------------------
(* Python values *)

None == [tag |-> "None", v |-> 0]
NaN == [tag |-> "nan", v |-> 0]
Num(n) == [tag |-> "num", v |-> n]
ZeroDivisionError == [tag |-> "ZeroDivisionError", v |-> 0]

\* bool(x): None and 0 are falsy, NaN and every other number truthy
Truthy(x) == x.tag = "nan" \/ (x.tag = "num" /\ x.v # 0)
\* pd.isna(x)
IsNa(x) == x.tag \in {"None", "nan"}

\* the variables of the components that a specification leaves idle
IdleDCF ==
    /\ current_price = None /\ free_cash_flow = None /\ shares_outstanding = None
    /\ discount_rate = 0 /\ terminal_growth_rate = 0
    /\ target_value = 0 /\ low = 0 /\ high = 0 /\ mid = 0 /\ iter = 0
    /\ ret = None
IdleSweep == growth_1 = 0 /\ growth_2 = 0 /\ value_1 = 0 /\ value_2 = 0
IdleIndicators == fetch = "idle" /\ close = <<>> /\ hist = None
IdleGrowth == financials = None /\ hist_growth = None
IdleTab == message = "idle"
IdleCompetitors ==
    /\ market = None /\ ticker_data = None /\ competitors_json = None
    /\ competitors = None /\ comp_data = None /\ status = "idle"
    /\ target_metrics = None /\ peers_metrics = None

-----------------------------------------------------------------------------
(* Fixed-point arithmetic.  The products are split so that no intermediate *)
(* value leaves the 32-bit range of the checker; the results are the exact *)
(* floors.                                                                 *)

Abs(x) == IF x < 0 THEN -x ELSE x

\* floor(a * b / Scale); b is the factor of small magnitude
MulFix(a, b) == (a \div Scale) * b + ((a % Scale) * b) \div Scale

\* floor(a * Scale / b) for b > 0
DivFixPos(a, b) == (a \div b) * Scale + ((a % b) * Scale) \div b

\* floor(a * Scale / b) for b # 0
DivFix(a, b) == IF b > 0 THEN DivFixPos(a, b) ELSE DivFixPos(-a, -b)

\* a percentage as a fraction: Rate(10) is 0.10
Rate(p) == (p * Scale) \div 100

RECURSIVE PowFix(_, _)
\* base ** i for an integer i >= 0
PowFix(base, i) == IF i = 0 THEN Scale ELSE MulFix(PowFix(base, i - 1), base)

-----------------------------------------------------------------------------
(* FinanceEngine._calculate_dcf_value *)

\* for i in range(1, 11)
ProjectionYears == 10

RECURSIVE DcfProjectionShrinking(_, _, _, _, _)
\* DcfProjection with the growth applied with the wrong sign
DcfProjectionShrinking(i, fcf, growth_rate, discount_rate_, acc) ==
    IF i > ProjectionYears THEN acc
    ELSE LET current_fcf == MulFix(acc[1], Scale - growth_rate)
             discounted_fcf == DivFix(current_fcf, PowFix(Scale + discount_rate_, i))
         IN  DcfProjectionShrinking(i + 1, fcf, growth_rate, discount_rate_,
                                    <<current_fcf, acc[2] + discounted_fcf>>)

RECURSIVE DcfProjection(_, _, _, _, _)
\* the state <<current_fcf, total_value>> after year i of the projection loop
DcfProjection(i, fcf, growth_rate, discount_rate_, acc) ==
    IF i > ProjectionYears THEN acc
    ELSE LET current_fcf == MulFix(acc[1], Scale + growth_rate)
             discounted_fcf == DivFix(current_fcf, PowFix(Scale + discount_rate_, i))
         IN  DcfProjection(i + 1, fcf, growth_rate, discount_rate_,
                           <<current_fcf, acc[2] + discounted_fcf>>)

\* the division of line 144 raises ZeroDivisionError
DcfRaises(discount_rate_, terminal_growth_rate_) ==
    discount_rate_ - terminal_growth_rate_ = 0

\* the value returned when line 144 does not raise
_calculate_dcf_value(fcf, growth_rate, discount_rate_, terminal_growth_rate_) ==
    LET proj == DcfProjection(1, fcf, growth_rate, discount_rate_, <<fcf, 0>>)
        current_fcf == proj[1]
        terminal_value == DivFix(MulFix(current_fcf, Scale + terminal_growth_rate_),
                                 discount_rate_ - terminal_growth_rate_)
        discounted_terminal_value ==
            DivFix(terminal_value, PowFix(Scale + discount_rate_, ProjectionYears))
    IN  proj[2] + discounted_terminal_value

-----------------------------------------------------------------------------
(* FinanceEngine.calculate_reverse_dcf *)

\* low = -0.50, high = 1.00, tolerance = 0.001, range(100)
SearchLow == -(Scale \div 2)
SearchHigh == Scale
tolerance == Scale \div 1000
MaxIterations == 100

\* the guard of lines 106-108: True when the function returns np.nan at once
InputsRejected(cp, fcf, sh) ==
    \/ ~(Truthy(cp) /\ Truthy(fcf) /\ Truthy(sh))
    \/ IsNa(cp) \/ IsNa(fcf) \/ IsNa(sh)
    \/ fcf.v <= 0

\* the growth rates of the sweep, both ends of the search range included
Sweep == {SearchLow + ((SearchHigh - SearchLow) * k) \div SweepN : k \in 0..SweepN}

FcfValues == {None, NaN, Num(0), Num(-Scale), Num(Scale), Num(2 * Scale)}
SharesValues == {None, NaN, Num(0), Num(Scale), Num(2 * Scale)}
RateValues == {Rate(5), Rate(10)}
TerminalValues == {Rate(3), Rate(5), Rate(10)}
BasePrices == {None, NaN, Num(0), Num(1), Num(10 * Scale), Num(100 * Scale),
               Num(90000 * Scale)}

\* prices at which price * shares is the forward valuation of a swept rate
RoundTripPrices(fcf, r, tg, sh) ==
    IF fcf.tag = "num" /\ fcf.v > 0 /\ sh.tag = "num" /\ sh.v > 0 /\ r > tg
    THEN {Num(_calculate_dcf_value(fcf.v, g, r, tg) \div (sh.v \div Scale)) : g \in Sweep}
    ELSE {}

InitDCF ==
    /\ free_cash_flow \in FcfValues
    /\ shares_outstanding \in SharesValues
    /\ discount_rate \in RateValues
    /\ terminal_growth_rate \in TerminalValues
    /\ current_price \in BasePrices \cup
           RoundTripPrices(free_cash_flow, discount_rate, terminal_growth_rate,
                           shares_outstanding)
    /\ target_value = 0 /\ low = 0 /\ high = 0 /\ mid = 0 /\ iter = 0
    /\ ret = None
    /\ pc = "start"
    /\ IdleSweep /\ IdleIndicators /\ IdleGrowth /\ IdleCompetitors /\ IdleTab

\* lines 106-109
ReturnNaN ==
    /\ pc = "start"
    /\ InputsRejected(current_price, free_cash_flow, shares_outstanding)
    /\ ret' = NaN
    /\ pc' = "done"
    /\ UNCHANGED <<current_price, free_cash_flow, shares_outstanding, discount_rate,
                   terminal_growth_rate, target_value, low, high, mid, iter>>
    /\ UNCHANGED nonDcfVars

\* lines 111-116
BeginSearch ==
    /\ pc = "start"
    /\ ~InputsRejected(current_price, free_cash_flow, shares_outstanding)
    /\ target_value' = MulFix(current_price.v, shares_outstanding.v)
    /\ low' = SearchLow
    /\ high' = SearchHigh
    /\ pc' = "loop"
    /\ UNCHANGED <<current_price, free_cash_flow, shares_outstanding, discount_rate,
                   terminal_growth_rate, mid, iter, ret>>
    /\ UNCHANGED nonDcfVars

\* mid = (low + high) / 2
Midpoint(lo, hi) == (lo + hi) \div 2

\* abs(dcf_val - target_value) < (target_value * tolerance)
WithinTolerance(dcf_val, target) == Abs(dcf_val - target) < MulFix(target, tolerance)

\* ValueAboveTarget with the comparison turned round
ValueBelowTarget(dcf_val, target) == dcf_val < target

\* if dcf_val > target_value
ValueAboveTarget(dcf_val, target) == dcf_val > target

\* dcf_val of the iteration that starts in this state
DcfAtMid ==
    _calculate_dcf_value(free_cash_flow.v, Midpoint(low, high), discount_rate,
                         terminal_growth_rate)

InLoop == pc = "loop" /\ iter < MaxIterations

\* line 120 raises inside the first iteration
IterateRaise ==
    /\ InLoop
    /\ DcfRaises(discount_rate, terminal_growth_rate)
    /\ mid' = Midpoint(low, high)
    /\ iter' = iter + 1
    /\ ret' = ZeroDivisionError
    /\ pc' = "done"
    /\ UNCHANGED <<current_price, free_cash_flow, shares_outstanding, discount_rate,
                   terminal_growth_rate, target_value, low, high>>
    /\ UNCHANGED nonDcfVars

\* lines 119-123
IterateReturn ==
    /\ InLoop
    /\ ~DcfRaises(discount_rate, terminal_growth_rate)
    /\ WithinTolerance(DcfAtMid, target_value)
    /\ mid' = Midpoint(low, high)
    /\ iter' = iter + 1
    /\ ret' = Num(mid' * 100)
    /\ pc' = "done"
    /\ UNCHANGED <<current_price, free_cash_flow, shares_outstanding, discount_rate,
                   terminal_growth_rate, target_value, low, high>>
    /\ UNCHANGED nonDcfVars

\* IterateHigh moving the lower bound instead of the upper one
IterateHighMovesLow ==
    /\ InLoop
    /\ ~DcfRaises(discount_rate, terminal_growth_rate)
    /\ ~WithinTolerance(DcfAtMid, target_value)
    /\ ValueAboveTarget(DcfAtMid, target_value)
    /\ mid' = Midpoint(low, high)
    /\ low' = mid'
    /\ iter' = iter + 1
    /\ UNCHANGED <<current_price, free_cash_flow, shares_outstanding, discount_rate,
                   terminal_growth_rate, target_value, high, ret, pc>>
    /\ UNCHANGED nonDcfVars

\* lines 119-126
IterateHigh ==
    /\ InLoop
    /\ ~DcfRaises(discount_rate, terminal_growth_rate)
    /\ ~WithinTolerance(DcfAtMid, target_value)
    /\ ValueAboveTarget(DcfAtMid, target_value)
    /\ mid' = Midpoint(low, high)
    /\ high' = mid'
    /\ iter' = iter + 1
    /\ UNCHANGED <<current_price, free_cash_flow, shares_outstanding, discount_rate,
                   terminal_growth_rate, target_value, low, ret, pc>>
    /\ UNCHANGED nonDcfVars

\* lines 119-128
IterateLow ==
    /\ InLoop
    /\ ~DcfRaises(discount_rate, terminal_growth_rate)
    /\ ~WithinTolerance(DcfAtMid, target_value)
    /\ ~ValueAboveTarget(DcfAtMid, target_value)
    /\ mid' = Midpoint(low, high)
    /\ low' = mid'
    /\ iter' = iter + 1
    /\ UNCHANGED <<current_price, free_cash_flow, shares_outstanding, discount_rate,
                   terminal_growth_rate, target_value, high, ret, pc>>
    /\ UNCHANGED nonDcfVars

\* line 130
ReturnLastMid ==
    /\ pc = "loop"
    /\ iter = MaxIterations
    /\ ret' = Num(mid * 100)
    /\ pc' = "done"
    /\ UNCHANGED <<current_price, free_cash_flow, shares_outstanding, discount_rate,
                   terminal_growth_rate, target_value, low, high, mid, iter>>
    /\ UNCHANGED nonDcfVars

NextDCF ==
    \/ ReturnNaN
    \/ BeginSearch
    \/ IterateRaise
    \/ IterateReturn
    \/ IterateHigh
    \/ IterateLow
    \/ ReturnLastMid

SpecDCF == InitDCF /\ [][NextDCF]_vars

-----------------------------------------------------------------------------
(* Properties of calculate_reverse_dcf *)

\* the three inputs are numbers; line 106 takes a price or share count of 0
\* for a missing one
InputsPresent ==
    /\ current_price.tag = "num" /\ current_price.v # 0
    /\ free_cash_flow.tag = "num"
    /\ shares_outstanding.tag = "num" /\ shares_outstanding.v # 0

InvalidAssumption ==
    discount_rate <= terminal_growth_rate \/ free_cash_flow.v <= 0

\* C1: with the three inputs present, the invalid-assumption outcome (NaN) is
\* returned exactly when discountRate <= terminalGrowthRate or freeCashFlow <= 0,
\* then without entering the loop, and otherwise a growth rate is returned.
C1_InvalidAssumptionExactly ==
    pc = "done" /\ InputsPresent =>
        /\ (ret = NaN) <=> InvalidAssumption
        /\ InvalidAssumption => iter = 0
        /\ ~InvalidAssumption => ret.tag = "num"

\* what the guard of lines 106-109 alone makes of an input
GuardOutcome(cp, fcf, sh) ==
    IF InputsRejected(cp, fcf, sh) THEN NaN ELSE [tag |-> "search", v |-> 0]

MissingInput ==
    IsNa(current_price) \/ IsNa(free_cash_flow) \/ IsNa(shares_outstanding)
NonPositiveFcf == free_cash_flow.tag = "num" /\ free_cash_flow.v <= 0
BadRates == discount_rate <= terminal_growth_rate

\* C2: a missing input, freeCashFlow <= 0 and discountRate <= terminalGrowthRate
\* each give an outcome that is no growth rate and differs from the outcome of
\* the other two failures.
C2_FailuresDistinct ==
    pc = "done" =>
        /\ MissingInput /\ ~BadRates =>
              /\ ret.tag # "num"
              /\ \A f \in {x \in FcfValues : x.tag = "num" /\ x.v <= 0} :
                     GuardOutcome(Num(Scale), f, Num(Scale)) # ret
        /\ NonPositiveFcf /\ ~MissingInput /\ ~BadRates =>
              /\ ret.tag # "num"
              /\ \A f \in {x \in FcfValues : IsNa(x)} :
                     GuardOutcome(Num(Scale), f, Num(Scale)) # ret
        /\ BadRates /\ InputsPresent /\ ~NonPositiveFcf =>
              /\ ret.tag # "num"
              /\ ret # NaN

ValidInputs ==
    /\ InputsPresent
    /\ free_cash_flow.v > 0 /\ shares_outstanding.v > 0
    /\ discount_rate > terminal_growth_rate

\* currentPrice * sharesOutstanding is the forward valuation of a swept rate g*
RoundTripInput ==
    /\ ValidInputs
    /\ \E g \in Sweep :
           MulFix(current_price.v, shares_outstanding.v) =
               _calculate_dcf_value(free_cash_flow.v, g, discount_rate,
                                    terminal_growth_rate)

\* |v - t| < 0.1% of t, exactly
GapBelowTenthPercent(v, t) == Abs(v - t) <= (t - 1) \div 1000

\* C3: on a round-trip input the returned rate g (returned as g * 100) has a
\* forward valuation within 0.1% of currentPrice * sharesOutstanding.
C3_RoundTrip ==
    pc = "done" /\ RoundTripInput =>
        /\ ret.tag = "num"
        /\ GapBelowTenthPercent(
               _calculate_dcf_value(free_cash_flow.v, ret.v \div 100, discount_rate,
                                    terminal_growth_rate),
               MulFix(current_price.v, shares_outstanding.v))

\* a round trip solved by several bisection steps
C3_Witness == pc = "done" /\ RoundTripInput /\ ret.tag = "num" /\ iter >= 5

\* C5: a returned growth rate carries a convergence flag, true exactly when the
\* run returned within tolerance, and the number of iterations consumed.
C5_ConvergenceStatus ==
    pc = "done" /\ ret.tag = "num" =>
        /\ "converged" \in DOMAIN ret
        /\ "iterations" \in DOMAIN ret
        /\ ret.converged =
               WithinTolerance(_calculate_dcf_value(free_cash_flow.v, mid, discount_rate,
                                                    terminal_growth_rate), target_value)
        /\ ret.iterations = iter

-----------------------------------------------------------------------------
(* A sweep of _calculate_dcf_value over pairs of growth rates *)

SweepFcf == {Num(-Scale), Num(Scale), Num(2 * Scale)}

InitSweep ==
    /\ free_cash_flow \in SweepFcf
    /\ discount_rate \in RateValues
    /\ terminal_growth_rate \in TerminalValues
    /\ growth_1 \in Sweep
    /\ growth_2 \in Sweep
    /\ value_1 = 0 /\ value_2 = 0
    /\ current_price = None /\ shares_outstanding = None
    /\ target_value = 0 /\ low = 0 /\ high = 0 /\ mid = 0 /\ iter = 0
    /\ ret = None
    /\ pc = "start"
    /\ IdleIndicators /\ IdleGrowth /\ IdleCompetitors /\ IdleTab

\* both calls return
EvaluatePair ==
    /\ pc = "start"
    /\ ~DcfRaises(discount_rate, terminal_growth_rate)
    /\ value_1' = _calculate_dcf_value(free_cash_flow.v, growth_1, discount_rate,
                                       terminal_growth_rate)
    /\ value_2' = _calculate_dcf_value(free_cash_flow.v, growth_2, discount_rate,
                                       terminal_growth_rate)
    /\ pc' = "done"
    /\ UNCHANGED <<current_price, free_cash_flow, shares_outstanding, discount_rate,
                   terminal_growth_rate, target_value, low, high, mid, iter, ret,
                   growth_1, growth_2, indVars, growthVars, compVars, tabVars>>

\* the first call raises at line 144
EvaluateRaise ==
    /\ pc = "start"
    /\ DcfRaises(discount_rate, terminal_growth_rate)
    /\ ret' = ZeroDivisionError
    /\ pc' = "done"
    /\ UNCHANGED <<current_price, free_cash_flow, shares_outstanding, discount_rate,
                   terminal_growth_rate, target_value, low, high, mid, iter, sweepVars,
                   indVars, growthVars, compVars, tabVars>>

NextSweep == EvaluatePair \/ EvaluateRaise

SpecSweep == InitSweep /\ [][NextSweep]_vars

\* C4: for fcf > 0 and discountRate > terminalGrowthRate the forward valuation
\* is strictly increasing in the growth rate over the swept range [-0.50, 1.00].
C4_StrictlyIncreasing ==
    pc = "done" /\ free_cash_flow.v > 0
        /\ discount_rate > terminal_growth_rate /\ growth_1 < growth_2
    => value_1 < value_2

\* the two ends of the search range, valued
C4_Witness ==
    /\ pc = "done" /\ free_cash_flow.v > 0
    /\ discount_rate > terminal_growth_rate
    /\ growth_1 = SearchLow /\ growth_2 = SearchHigh
    /\ 0 < value_1 /\ value_1 < value_2

-----------------------------------------------------------------------------
(* FinanceEngine.get_price_history *)

\* rolling(window=50), rolling(window=200), rolling(window=14)
SmaShortWindow == 50
SmaLongWindow == 200
RsiWindow == 14

Inf == [tag |-> "inf", v |-> 0]

Min(a, b) == IF a < b THEN a ELSE b
Max(a, b) == IF a > b THEN a ELSE b

\* One step of Series.rolling(window, min_periods).mean() as pandas computes
\* it: a running sum to which the entering value is added and from which the
\* leaving value is removed; a value is produced once min_periods observations
\* are in the window.  st is <<the sum before position i, the result so far>>.
RollStep(series, window, min_periods, i, st) ==
    LET added == st[1] + series[i]
        s == IF i > window THEN added - series[i - window] ELSE added
        nobs == Min(i, window)
        val == IF nobs >= min_periods THEN Num(s \div nobs) ELSE NaN
    IN  <<s, Append(st[2], val)>>

RECURSIVE Roll(_, _, _, _, _, _)
\* the steps of positions from..to in order, started in st (the range is halved
\* only to keep the evaluation shallow)
Roll(series, window, min_periods, from, to, st) ==
    IF from > to THEN st
    ELSE IF from = to THEN RollStep(series, window, min_periods, from, st)
    ELSE LET half == (from + to) \div 2
             first == Roll(series, window, min_periods, from, half, st)
         IN  IF Len(first[2]) = half
             THEN Roll(series, window, min_periods, half + 1, to, first)
             ELSE first

\* RollingMean with min_periods=1 passed
RollingMeanPartial(series, window) ==
    Roll(series, window, 1, 1, Len(series), <<0, <<>>>>)[2]

\* series.rolling(window=window).mean(): min_periods defaults to the window
RollingMean(series, window) ==
    Roll(series, window, window, 1, Len(series), <<0, <<>>>>)[2]

\* hist['Close'].diff(): NaN at the first position
Diff(series) ==
    [i \in 1..Len(series) |-> IF i = 1 THEN NaN ELSE Num(series[i] - series[i - 1])]

\* delta.where(delta > 0, 0): a comparison with NaN is False
GainSeries(delta) ==
    [i \in 1..Len(delta) |->
        IF delta[i].tag = "num" /\ delta[i].v > 0 THEN delta[i].v ELSE 0]

\* -delta.where(delta < 0, 0)
LossSeries(delta) ==
    [i \in 1..Len(delta) |->
        -(IF delta[i].tag = "num" /\ delta[i].v < 0 THEN delta[i].v ELSE 0)]

\* float division of numpy: x / 0 is inf, 0 / 0 is NaN, nothing is raised
FloatDiv(a, b) ==
    IF a.tag = "nan" \/ b.tag = "nan" THEN NaN
    ELSE IF b.v = 0 THEN (IF a.v = 0 THEN NaN ELSE Inf)
    ELSE Num(DivFix(a.v, b.v))

\* 100 - (100 / (1 + rs))
RsiFromRs(rs) ==
    IF rs.tag = "nan" THEN NaN
    ELSE IF rs.tag = "inf" THEN Num(100 * Scale)
    ELSE Num(100 * Scale - DivFix(100 * Scale, Scale + rs.v))

\* lines 86-90
RsiSeries(closes) ==
    LET delta == Diff(closes)
        gain == RollingMean(GainSeries(delta), RsiWindow)
        loss == RollingMean(LossSeries(delta), RsiWindow)
    IN  [i \in 1..Len(closes) |-> RsiFromRs(FloatDiv(gain[i], loss[i]))]

\* the frame returned at line 92
Frame(closes) ==
    [tag |-> "frame",
     v |-> [Close |-> closes,
            SMA_50 |-> RollingMean(closes, SmaShortWindow),
            SMA_200 |-> RollingMean(closes, SmaLongWindow),
            RSI |-> RsiSeries(closes)]]

\* a history of n closes: BasePrice, then k steps of d1, then steps of d2
Closes(n, d1, k, d2) ==
    [i \in 1..n |-> (BasePrice + d1 * Min(i - 1, k) + d2 * Max(0, i - 1 - k)) * Scale]

Lengths ==
    {n \in {0, 1, 2, MaxLen}
           \cup {w + j : w \in {RsiWindow, SmaShortWindow, SmaLongWindow}, j \in -1..2} :
        n <= MaxLen}
Breaks(n) == {k \in {0, n \div 2, n - RsiWindow - 1, n - RsiWindow, n - 3} : k >= 0}

InitIndicators ==
    /\ fetch \in {"ok", "raises"}
    /\ \E n \in Lengths, d1 \in {-1, 0, 1}, d2 \in {-1, 0, 1} :
           \E k \in Breaks(n) : close = Closes(n, d1, k, d2)
    /\ hist = None
    /\ pc = "start"
    /\ IdleDCF /\ IdleSweep /\ IdleGrowth /\ IdleCompetitors /\ IdleTab

\* lines 75-76 raise: lines 93-95
HistoryRaises ==
    /\ pc = "start"
    /\ fetch = "raises"
    /\ hist' = None
    /\ pc' = "done"
    /\ UNCHANGED <<fetch, close, dcfVars_, tabVars, sweepVars, growthVars, compVars>>

\* lines 78-79
HistoryEmpty ==
    /\ pc = "start"
    /\ fetch = "ok"
    /\ Len(close) = 0
    /\ hist' = None
    /\ pc' = "done"
    /\ UNCHANGED <<fetch, close, dcfVars_, tabVars, sweepVars, growthVars, compVars>>

\* lines 81-92
HistoryFrame ==
    /\ pc = "start"
    /\ fetch = "ok"
    /\ Len(close) > 0
    /\ hist' = Frame(close)
    /\ pc' = "done"
    /\ UNCHANGED <<fetch, close, dcfVars_, tabVars, sweepVars, growthVars, compVars>>

NextIndicators == HistoryRaises \/ HistoryEmpty \/ HistoryFrame

SpecIndicators == InitIndicators /\ [][NextIndicators]_vars

-----------------------------------------------------------------------------
(* Properties of get_price_history.  Index i of the claims counts from 0 and *)
(* is position i + 1 of a sequence.                                          *)

RECURSIVE SumRange(_, _, _)
\* series[from] + ... + series[to]
SumRange(series, from, to) ==
    IF from > to THEN 0
    ELSE IF from = to THEN series[from]
    ELSE LET half == (from + to) \div 2
         IN  SumRange(series, from, half) + SumRange(series, half + 1, to)

Returned == pc = "done" /\ hist.tag = "frame"

\* column col is the SMA of window w of the closes
IsSma(col, w) ==
    /\ Len(col) = Len(close)
    /\ \A i \in 0..(Len(close) - 1) :
           IF i < w - 1 THEN col[i + 1] = NaN
           ELSE col[i + 1] = Num(SumRange(close, i - w + 2, i + 1) \div w)

\* C6: each SMA column has the length of the history, is absent before index
\* W-1 and is the mean of the closes at indices i-W+1 .. i from there on.
C6_SmaIsWindowMean ==
    Returned => /\ IsSma(hist.v.SMA_50, SmaShortWindow)
                /\ IsSma(hist.v.SMA_200, SmaLongWindow)

\* a history that is not flat, long enough for both windows
C6_Witness ==
    /\ Returned
    /\ Len(close) > SmaLongWindow
    /\ close[1] # close[Len(close)]
    /\ hist.v.SMA_200[SmaLongWindow - 1] = NaN
    /\ hist.v.SMA_200[Len(close)].tag = "num"
    /\ hist.v.SMA_50[Len(close)] # hist.v.SMA_200[Len(close)]

\* the fall of the close at index j (0 when it did not fall)
LossAt(j) == Max(0, close[j] - close[j + 1])

\* the 14 deltas ending at index i hold no loss
WindowHasNoLoss(i) == \A j \in (i - RsiWindow + 1)..i : LossAt(j) = 0

\* C7: at every index with a full 14-delta window whose mean loss is 0, RSI is
\* exactly 100 (never NaN), also when the window is flat.
C7_ZeroLossIsHundred ==
    Returned =>
        \A i \in RsiWindow..(Len(close) - 1) :
            WindowHasNoLoss(i) => hist.v.RSI[i + 1] = Num(100 * Scale)

\* C8: RSI is absent at indices 0..13 and present from index 14 on.
C8_RsiAbsentFirst14 ==
    Returned =>
        \A i \in 0..(Len(close) - 1) :
            IF i < RsiWindow THEN hist.v.RSI[i + 1] = NaN
            ELSE hist.v.RSI[i + 1] # NaN

-----------------------------------------------------------------------------
(* FinanceEngine.get_historical_growth *)

RECURSIVE RootSearch(_, _, _, _)
\* the largest y in lo..hi with y ** n <= x, given lo ** n <= x
RootSearch(x, n, lo, hi) ==
    IF lo >= hi THEN lo
    ELSE LET m == (lo + hi + 1) \div 2
         IN  IF PowFix(m, n) <= x THEN RootSearch(x, n, m, hi)
             ELSE RootSearch(x, n, lo, m - 1)

\* x ** (1 / n) of numpy floats: NaN for a negative base, unless the exponent
\* is the integer 1
FracPow(x, n) ==
    IF x.tag = "nan" THEN NaN
    ELSE IF x.v < 0 THEN (IF n = 1 THEN x ELSE NaN)
    ELSE Num(RootSearch(x.v, n, 0, Max(x.v, Scale)))

\* end_rev / start_rev for start_rev > 0 or NaN
Ratio(end_rev, start_rev) ==
    IF end_rev.tag = "nan" \/ start_rev.tag = "nan" THEN NaN
    ELSE Num(DivFix(end_rev.v, start_rev.v))

\* lines 198-199
CagrPercent(start_rev, end_rev, years) ==
    LET root == FracPow(Ratio(end_rev, start_rev), years)
    IN  IF root.tag = "nan" THEN NaN ELSE Num((root.v - Scale) * 100)

\* the column of the earliest date
Earliest(row) == CHOOSE c \in 1..Len(row) : \A d \in 1..Len(row) : row[c].date <= row[d].date

RECURSIVE SortIndex(_)
\* revenues.sort_index(): the points by ascending date
SortIndex(row) ==
    IF Len(row) = 0 THEN <<>>
    ELSE LET c == Earliest(row)
         IN  <<row[c]>> \o SortIndex(SubSeq(row, 1, c - 1) \o SubSeq(row, c + 1, Len(row)))

\* SortedRevenues without the sort
UnsortedRevenues(row) == row

\* line 189
SortedRevenues(row) == SortIndex(row)

\* start_rev <= 0: False for NaN
NotPositive(x) == x.tag = "num" /\ x.v <= 0

RevenueValues == {NaN, Num(-Scale), Num(0), Num(Scale), Num(2 * Scale), Num(4 * Scale)}

\* the rows of n points: every order of the dates 1..n, every value
Rows(n) ==
    {[c \in 1..n |-> [date |-> d[c], rev |-> r[c]]] :
        d \in {f \in [1..n -> 1..n] : \A a, b \in 1..n : f[a] = f[b] => a = b},
        r \in [1..n -> RevenueValues]}

\* ticker_obj.financials: the access raises, the frame is empty, the frame has
\* no 'Total Revenue' row, or it has one
InitGrowth ==
    /\ \/ financials \in {[tag |-> t, v |-> <<>>] : t \in {"raises", "empty", "no_row"}}
       \/ \E n \in 0..MaxPoints : financials \in {[tag |-> "frame", v |-> row] : row \in Rows(n)}
    /\ hist_growth = None
    /\ pc = "start"
    /\ IdleDCF /\ IdleSweep /\ IdleIndicators /\ IdleCompetitors /\ IdleTab

\* line 180 or line 184 raises: lines 200-201
GrowthRaises ==
    /\ pc = "start"
    /\ financials.tag \in {"raises", "no_row"}
    /\ hist_growth' = NaN
    /\ pc' = "done"
    /\ UNCHANGED <<financials, dcfVars_, tabVars, sweepVars, indVars, compVars>>

\* lines 181-182
GrowthEmpty ==
    /\ pc = "start"
    /\ financials.tag = "empty"
    /\ hist_growth' = NaN
    /\ pc' = "done"
    /\ UNCHANGED <<financials, dcfVars_, tabVars, sweepVars, indVars, compVars>>

\* lines 185-186
GrowthTooShort ==
    /\ pc = "start"
    /\ financials.tag = "frame"
    /\ Len(financials.v) < 2
    /\ hist_growth' = NaN
    /\ pc' = "done"
    /\ UNCHANGED <<financials, dcfVars_, tabVars, sweepVars, indVars, compVars>>

\* lines 189-196
GrowthNoBase ==
    /\ pc = "start"
    /\ financials.tag = "frame"
    /\ Len(financials.v) >= 2
    /\ LET revenues == SortedRevenues(financials.v)
           start_rev == revenues[1].rev
           years == Len(revenues) - 1
       IN  NotPositive(start_rev) \/ years <= 0
    /\ hist_growth' = NaN
    /\ pc' = "done"
    /\ UNCHANGED <<financials, dcfVars_, tabVars, sweepVars, indVars, compVars>>

\* lines 189-199
GrowthComputed ==
    /\ pc = "start"
    /\ financials.tag = "frame"
    /\ Len(financials.v) >= 2
    /\ LET revenues == SortedRevenues(financials.v)
           start_rev == revenues[1].rev
           end_rev == revenues[Len(revenues)].rev
           years == Len(revenues) - 1
       IN  /\ ~(NotPositive(start_rev) \/ years <= 0)
           /\ hist_growth' = CagrPercent(start_rev, end_rev, years)
    /\ pc' = "done"
    /\ UNCHANGED <<financials, dcfVars_, tabVars, sweepVars, indVars, compVars>>

NextGrowth ==
    \/ GrowthRaises
    \/ GrowthEmpty
    \/ GrowthTooShort
    \/ GrowthNoBase
    \/ GrowthComputed

SpecGrowth == InitGrowth /\ [][NextGrowth]_vars

-----------------------------------------------------------------------------
(* Properties of get_historical_growth *)

\* the revenue at the earliest date, and at the latest
FirstRevenue ==
    LET row == financials.v
        c == CHOOSE c \in 1..Len(row) : \A d \in 1..Len(row) : row[c].date <= row[d].date
    IN  row[c].rev
LastRevenue ==
    LET row == financials.v
        c == CHOOSE c \in 1..Len(row) : \A d \in 1..Len(row) : row[c].date >= row[d].date
    IN  row[c].rev

\* C9: the result is absent (NaN, never an exception) with fewer than 2 points,
\* a chronologically first value <= 0 or a span <= 0, and otherwise is
\* ((last / first) ^ (1 / span) - 1) * 100 of the chronologically first and
\* last values, whatever the order of the points.
C9_HistoricalGrowth ==
    pc = "done" =>
        /\ hist_growth.tag \in {"nan", "num"}
        /\ IF financials.tag # "frame" THEN hist_growth = NaN
           ELSE LET span == Len(financials.v) - 1
                IN  IF Len(financials.v) < 2 THEN hist_growth = NaN
                    ELSE IF NotPositive(FirstRevenue) \/ span <= 0 THEN hist_growth = NaN
                    ELSE hist_growth =
                             CagrPercent(FirstRevenue, LastRevenue, span)

\* points supplied latest first, growing from 1 to 4 over the span
C9_Witness ==
    /\ pc = "done"
    /\ financials.tag = "frame"
    /\ Len(financials.v) = MaxPoints
    /\ \A c \in 1..(MaxPoints - 1) : financials.v[c].date > financials.v[c + 1].date
    /\ FirstRevenue = Num(Scale) /\ LastRevenue = Num(4 * Scale)
    /\ hist_growth.tag = "num" /\ hist_growth.v > 0

-----------------------------------------------------------------------------
(* app.py: the Competitor Matrix tab *)

Symbol == "T"
Tickers == {"T", "P", "Q"}

\* the fields of get_stock_data's dict that the tab reads; np.nan where the
\* provider has none (finance_engine.py lines 25, 30, 31), None where the
\* provider's info holds the key with a null
Fundamentals(rg, ev, pm) == [revenueGrowth |-> rg, evToEbitda |-> ev, profitMargins |-> pm]
DataChoices ==
    {Fundamentals(Num(Rate(10)), Num(12 * Scale), Num(Rate(20))),
     Fundamentals(NaN, NaN, NaN),
     Fundamentals(None, None, None),
     Fundamentals(Num(0), Num(12 * Scale), Num(0)),
     Fundamentals(Num(-Rate(20)), Num(8 * Scale), Num(-Rate(10)))}

\* get_stock_data(ticker)[0]: the dict, or None when the fetch raises
get_stock_data(ticker) == market[ticker]

\* x * 100 if x else 0
PercentOrZero(x) ==
    IF Truthy(x) THEN (IF x.tag = "nan" THEN NaN ELSE Num(x.v * 100)) ELSE Num(0)

\* the dict appended at lines 232-238 and 243-249
MetricRecord(ticker, d, role) ==
    [Ticker |-> ticker,
     RevGrowth |-> PercentOrZero(d.revenueGrowth),
     EVEBITDA |-> d.evToEbitda,
     NetMargin |-> d.profitMargins,
     Type |-> role]

RECURSIVE PeerRecords(_)
\* the loop of lines 240-249
PeerRecords(list) ==
    IF Len(list) = 0 THEN <<>>
    ELSE LET c_data == get_stock_data(Head(list))
             rest == PeerRecords(Tail(list))
         IN  IF c_data # None
             THEN <<MetricRecord(Head(list), c_data.v, "Peer")>> \o rest
             ELSE rest

\* the list of lines 230-249
CompData(list) == <<MetricRecord(Symbol, ticker_data.v, "Target")>> \o PeerRecords(list)

\* df['NetMargin'].fillna(0)
FillNa(x) == IF IsNa(x) THEN Num(0) ELSE x

\* df['NetMargin'].abs(), then .replace(0, 0.01)
AbsMargin(net_margin) ==
    IF net_margin.v = 0 THEN Num(Rate(1)) ELSE Num(Abs(net_margin.v))

\* lines 263-266 on one row
Rendered(row) ==
    LET net_margin == FillNa(row.NetMargin)
    IN  [Ticker |-> row.Ticker, RevGrowth |-> row.RevGrowth, EVEBITDA |-> row.EVEBITDA,
         NetMargin |-> net_margin, Type |-> row.Type, AbsMargin |-> AbsMargin(net_margin)]

\* the frame of line 251 after lines 258-266 of the same script run
RenderedFrame(rows) == [tag |-> "frame", v |-> [i \in 1..Len(rows) |-> Rendered(rows[i])]]

\* df[df['Ticker'] == data['symbol']].to_dict('records'), line 280
TargetRowsOf(frame) == SelectSeq(frame.v, LAMBDA row : row.Ticker = Symbol)

\* target_rows[0] when target_rows is not empty (lines 281-282); nothing is
\* passed on when there is no frame or no such row (lines 257, 288-289)
TargetMetrics(frame) ==
    IF frame = None \/ Len(TargetRowsOf(frame)) = 0 THEN None
    ELSE [tag |-> "dict", v |-> TargetRowsOf(frame)[1]]

\* df[df['Ticker'] != data['symbol']].to_dict('records'), line 283
PeersMetrics(frame) ==
    IF frame = None \/ Len(TargetRowsOf(frame)) = 0 THEN None
    ELSE [tag |-> "list", v |-> SelectSeq(frame.v, LAMBDA row : row.Ticker # Symbol)]

RECURSIVE SeqsUpTo(_, _)
\* the sequences over S of length at most n
SeqsUpTo(S, n) ==
    IF n = 0 THEN {<<>>}
    ELSE LET shorter == SeqsUpTo(S, n - 1)
         IN  shorter \cup {Append(q, x) : q \in {r \in shorter : Len(r) = n - 1}, x \in S}

\* what analyze_competitors returns: text json.loads rejects, JSON that
\* ', '.join rejects (a number, a list of numbers), or a list of tickers
Responses ==
    {[tag |-> "invalid_json", v |-> <<>>], [tag |-> "not_strings", v |-> <<>>]}
        \cup {[tag |-> "list", v |-> l] : l \in SeqsUpTo(Tickers, MaxPeers)}

\* the session after "Analyze Stock" has fetched the target (lines 75-89)
InitCompetitors ==
    /\ market \in {m \in [Tickers -> {None} \cup {[tag |-> "dict", v |-> d] : d \in DataChoices}] :
                      m[Symbol] # None}
    /\ ticker_data = market[Symbol]
    /\ competitors_json = None
    /\ competitors = None
    /\ comp_data = None
    /\ target_metrics = None
    /\ peers_metrics = None
    /\ status = "analyzed"
    /\ pc = "start"
    /\ IdleDCF /\ IdleSweep /\ IdleIndicators /\ IdleGrowth /\ IdleTab

\* "Analyze Stock" pressed again: lines 75-89
AnalyzeStock ==
    /\ status # "analyzed"
    /\ ticker_data' = get_stock_data(Symbol)
    /\ comp_data' = None
    /\ competitors' = None
    /\ competitors_json' = None
    /\ target_metrics' = None
    /\ peers_metrics' = None
    /\ status' = "analyzed"
    /\ UNCHANGED <<market, pc, dcfVars_, tabVars, sweepVars, indVars, growthVars>>

\* "Run Competitor Analysis", json.loads raises at line 225: lines 254-255;
\* a frame left by an earlier run is rendered again (lines 257-286)
RunParseFails ==
    /\ \E response \in Responses :
           /\ response.tag = "invalid_json"
           /\ competitors_json' = response
    /\ status' = "error"
    /\ target_metrics' = TargetMetrics(comp_data)
    /\ peers_metrics' = PeersMetrics(comp_data)
    /\ UNCHANGED <<market, ticker_data, competitors, comp_data, pc,
                   dcfVars_, tabVars, sweepVars, indVars, growthVars>>

\* "Run Competitor Analysis", ', '.join raises at line 227: lines 254-255;
\* a frame left by an earlier run is rendered again (lines 257-286)
RunJoinFails ==
    /\ \E response \in Responses :
           /\ response.tag = "not_strings"
           /\ competitors_json' = response
           /\ competitors' = response
    /\ status' = "error"
    /\ target_metrics' = TargetMetrics(comp_data)
    /\ peers_metrics' = PeersMetrics(comp_data)
    /\ UNCHANGED <<market, ticker_data, comp_data, pc,
                   dcfVars_, tabVars, sweepVars, indVars, growthVars>>

\* "Run Competitor Analysis", lines 222-252, and lines 257-286 of the same run
RunComplete ==
    /\ \E response \in Responses :
           /\ response.tag = "list"
           /\ competitors_json' = response
           /\ competitors' = response
           /\ comp_data' = RenderedFrame(CompData(response.v))
    /\ target_metrics' = TargetMetrics(comp_data')
    /\ peers_metrics' = PeersMetrics(comp_data')
    /\ status' = "complete"
    /\ UNCHANGED <<market, ticker_data, pc, dcfVars_, tabVars, sweepVars, indVars, growthVars>>

NextCompetitors ==
    \/ AnalyzeStock
    \/ RunParseFails
    \/ RunJoinFails
    \/ RunComplete

SpecCompetitors == InitCompetitors /\ [][NextCompetitors]_vars

-----------------------------------------------------------------------------
(* Properties of the Competitor Matrix tab *)

\* the last thing the user did was a run of the competitor analysis
AfterRun == status \in {"complete", "error"}

TargetRows ==
    {i \in 1..Len(comp_data.v) :
        comp_data.v[i].Ticker = Symbol /\ comp_data.v[i].Type = "Target"}

\* C10: after every run of the competitor analysis, whatever the peer
\* discovery returned, the table exists and holds the target's record with
\* role Target; with zero peers it holds exactly that record and no error is
\* shown.
C10_TargetAlwaysPresent ==
    AfterRun =>
        /\ comp_data.tag = "frame"
        /\ TargetRows # {}
        /\ competitors_json = [tag |-> "list", v |-> <<>>] =>
               /\ Len(comp_data.v) = 1
               /\ status = "complete"

\* the table has been built by the run the user last made
TableBuilt == status = "complete" /\ comp_data.tag = "frame"

\* the records of the table whose role is Target
TargetRoleRows == {i \in 1..Len(comp_data.v) : comp_data.v[i].Type = "Target"}

\* C11: in every comparison table built by the competitor analysis no two
\* records share a ticker, and exactly one record has role Target, also when
\* the discovered list names the target itself or repeats a peer.
C11_TickersUnique ==
    TableBuilt =>
        /\ \A i, j \in 1..Len(comp_data.v) :
               comp_data.v[i].Ticker = comp_data.v[j].Ticker => i = j
        /\ Cardinality(TargetRoleRows) = 1

\* what the provider supplied as revenueGrowth for the ticker of a record
SuppliedGrowth(row) == get_stock_data(row.Ticker).v.revenueGrowth

\* C12: every record's RevGrowth is revenueGrowth * 100 when the provider
\* supplied revenueGrowth and exactly 0 when it is missing (the np.nan that
\* get_stock_data substitutes included); it is never absent or NaN.
C12_GrowthPercentOrZero ==
    TableBuilt =>
        \A i \in 1..Len(comp_data.v) :
            LET row == comp_data.v[i]
                rg == SuppliedGrowth(row)
            IN  /\ row.RevGrowth.tag = "num"
                /\ row.RevGrowth.v = (IF rg.tag = "num" THEN rg.v * 100 ELSE 0)

\* what the provider supplied as profitMargins for the ticker of a record
SuppliedMargin(row) == get_stock_data(row.Ticker).v.profitMargins

\* the signed net margin of a record: the supplied one, 0 when it is missing
SignedMargin(row) == IF IsNa(SuppliedMargin(row)) THEN Num(0) ELSE SuppliedMargin(row)

\* the records handed to find_better_alternatives
PayloadRecords ==
    IF target_metrics = None THEN {}
    ELSE {target_metrics.v} \cup {peers_metrics.v[i] : i \in 1..Len(peers_metrics.v)}

\* the magnitude of a record is |NetMargin|, or 0.01 when NetMargin is 0
MagnitudeDerived(row) ==
    /\ row.AbsMargin.tag = "num"
    /\ row.AbsMargin.v = (IF row.NetMargin.v # 0 THEN Abs(row.NetMargin.v) ELSE Rate(1))
    /\ row.AbsMargin.v > 0

\* C13: in every record of the table a missing netMargin is 0, the magnitude
\* is |netMargin| or 0.01 when netMargin is 0 and so always positive, the
\* signed netMargin is left as supplied, and the records passed on for
\* ranking and narration carry the signed netMargin and not the magnitude.
C13_SignedMarginUsed ==
    TableBuilt =>
        /\ \A i \in 1..Len(comp_data.v) :
               /\ comp_data.v[i].NetMargin = SignedMargin(comp_data.v[i])
               /\ MagnitudeDerived(comp_data.v[i])
        /\ \A rec \in PayloadRecords :
               /\ rec.NetMargin = SignedMargin(rec)
               /\ "AbsMargin" \notin DOMAIN rec

-----------------------------------------------------------------------------
(* Further properties of calculate_reverse_dcf: the run as a whole *)

\* the forward valuation of rate g for the arguments of the run
ValueAt(g) ==
    _calculate_dcf_value(free_cash_flow.v, g, discount_rate, terminal_growth_rate)

\* the absolute gap between the forward valuation of rate g and the target
GapAt(g) == Abs(ValueAt(g) - target_value)

\* the loop ran through all its iterations and line 130 returned
Exhausted ==
    /\ pc = "done" /\ ret.tag = "num" /\ iter = MaxIterations
    /\ ~WithinTolerance(ValueAt(mid), target_value)

RECURSIVE SmallestGap(_, _, _)
\* the smallest gap among the midpoints of n iterations from bracket [lo, hi];
\* once an iteration leaves the bracket as it was, every later iteration
\* evaluates the same midpoint again
SmallestGap(lo, hi, n) ==
    LET m == Midpoint(lo, hi)
        dcf_val == ValueAt(m)
        gap == Abs(dcf_val - target_value)
        above == ValueAboveTarget(dcf_val, target_value)
        next_low == IF above THEN lo ELSE m
        next_high == IF above THEN m ELSE hi
    IN  IF n = 1 \/ (next_low = lo /\ next_high = hi) THEN gap
        ELSE Min(gap, SmallestGap(next_low, next_high, n - 1))

\* C14: when all 100 iterations are used up without a midpoint within the
\* tolerance, the returned rate is the best midpoint of the run: no midpoint
\* evaluated during the run has a smaller gap to the target.
C14_ReturnsBestMidpoint ==
    Exhausted =>
        /\ ret.v = mid * 100
        /\ GapAt(mid) <= SmallestGap(SearchLow, SearchHigh, MaxIterations)

\* the bracket and the midpoint lie in the search range, in order, and the
\* loop has begun at most MaxIterations iterations
BracketInRange ==
    pc \in {"loop", "done"} =>
        /\ SearchLow <= low /\ low <= high /\ high <= SearchHigh
        /\ iter > 0 => low <= mid /\ mid <= high
        /\ iter <= MaxIterations

\* a returned growth rate lies in [-50, 100] percent
ReturnedInRange ==
    pc = "done" /\ ret.tag = "num" => -50 * Scale <= ret.v /\ ret.v <= 100 * Scale

\* an iteration that does not return: mid is the mean of the bracket, exactly
\* one bound moves to it (high when the valuation at mid exceeds the target,
\* low otherwise) and the width of the bracket halves, to the rounding of the
\* arithmetic
BracketStep ==
    pc = "loop" /\ pc' = "loop" /\ iter' = iter + 1 =>
        /\ 2 * mid' <= low + high /\ low + high <= 2 * mid' + 1
        /\ low <= mid' /\ mid' <= high
        /\ IF ValueAt(mid') > target_value
           THEN high' = mid' /\ low' = low
           ELSE low' = mid' /\ high' = high
        /\ 2 * (high' - low') \in {(high - low) - 1, high - low, (high - low) + 1}

\* how far the call has come: before the loop, in the loop after iter
\* iterations, returned
Rank ==
    IF pc = "start" THEN 0
    ELSE IF pc = "loop" THEN 1 + iter
    ELSE MaxIterations + 2

\* every step brings the call nearer to its end
TowardsReturn == Rank' > Rank

\* C16: throughout the bisection -0.50 <= low <= mid <= high <= 1.00 with mid
\* the mean of the bracket; each iteration that does not return moves exactly
\* one bound to mid (high when the valuation at mid exceeds the target, low
\* otherwise), so the width halves; the loop runs at most 100 iterations for
\* every input and the call ends (each step raises a rank that is at most
\* MaxIterations + 2, so no call takes more steps than that); a returned rate
\* lies in [-50, 100] percent.
C16_BisectionBounded ==
    /\ [](BracketInRange /\ ReturnedInRange)
    /\ [][BracketStep /\ TowardsReturn]_vars

\* a call that returned a rate after both bounds of the bracket had moved
C16_Witness ==
    /\ pc = "done" /\ ret.tag = "num" /\ iter >= 5
    /\ low > SearchLow /\ high < SearchHigh

-----------------------------------------------------------------------------
(* app.py: the Deep Dive Valuation tab *)

\* the terminal growth slider runs from 1% to 5%
TabTerminalValues == {Rate(3), Rate(5)}

\* what get_historical_growth returns to the tab, in percent: np.nan or a
\* number, one equal to the implied growth included
HistoricalGrowths(implied_growth) ==
    {NaN, Num(-60 * Scale), Num(10 * Scale), Num(150 * Scale)}
        \cup (IF implied_growth.tag = "num" THEN {implied_growth} ELSE {})

\* a < b on Python floats: False when either side is NaN
FloatLess(a, b) == a.tag = "num" /\ b.tag = "num" /\ a.v < b.v

\* the data of the analysed stock and the sliders (lines 179-184)
InitDeepDive ==
    /\ free_cash_flow \in FcfValues
    /\ shares_outstanding \in SharesValues
    /\ discount_rate \in RateValues
    /\ terminal_growth_rate \in TabTerminalValues
    /\ current_price \in BasePrices \cup
           RoundTripPrices(free_cash_flow, discount_rate, terminal_growth_rate,
                           shares_outstanding)
    /\ target_value = 0 /\ low = 0 /\ high = 0 /\ mid = 0 /\ iter = 0
    /\ ret = None
    /\ pc = "tab"
    /\ message = "none"
    /\ IdleSweep /\ IdleIndicators /\ IdleGrowth /\ IdleCompetitors

\* if fcf and shares
EnoughData == Truthy(free_cash_flow) /\ Truthy(shares_outstanding)

\* lines 186, 202-203
TabInsufficient ==
    /\ pc = "tab"
    /\ ~EnoughData
    /\ message' = "insufficient"
    /\ pc' = "shown"
    /\ UNCHANGED <<dcfVars_, sweepVars, indVars, growthVars, compVars>>

\* lines 186-189: the call of calculate_reverse_dcf begins
TabCall ==
    /\ pc = "tab"
    /\ EnoughData
    /\ pc' = "start"
    /\ UNCHANGED <<dcfVars_, tabVars, sweepVars, indVars, growthVars, compVars>>

\* the exception of line 144 leaves the tab at line 187
TabRaise ==
    /\ pc = "done"
    /\ ret.tag = ZeroDivisionError.tag
    /\ message' = "raised"
    /\ pc' = "shown"
    /\ UNCHANGED <<dcfVars_, sweepVars, indVars, growthVars, compVars>>

\* lines 192-197 with pd.isna(hist_growth): both metrics, no valuation message
TabNoHistory ==
    /\ pc = "done"
    /\ ret.tag # ZeroDivisionError.tag
    /\ hist_growth' = NaN
    /\ message' = "metrics_only"
    /\ pc' = "shown"
    /\ UNCHANGED <<financials, dcfVars_, sweepVars, indVars, compVars>>

\* lines 192-199
TabUndervalued ==
    /\ pc = "done"
    /\ ret.tag # ZeroDivisionError.tag
    /\ \E h \in HistoricalGrowths(ret) :
           /\ ~IsNa(h)
           /\ FloatLess(ret, h)
           /\ hist_growth' = h
    /\ message' = "UNDERVALUED"
    /\ pc' = "shown"
    /\ UNCHANGED <<financials, dcfVars_, sweepVars, indVars, compVars>>

\* lines 192-201
TabOvervalued ==
    /\ pc = "done"
    /\ ret.tag # ZeroDivisionError.tag
    /\ \E h \in HistoricalGrowths(ret) :
           /\ ~IsNa(h)
           /\ ~FloatLess(ret, h)
           /\ hist_growth' = h
    /\ message' = "OVERVALUED"
    /\ pc' = "shown"
    /\ UNCHANGED <<financials, dcfVars_, sweepVars, indVars, compVars>>

NextDeepDive ==
    \/ TabInsufficient
    \/ TabCall
    \/ ReturnNaN
    \/ BeginSearch
    \/ IterateRaise
    \/ IterateReturn
    \/ IterateHigh
    \/ IterateLow
    \/ ReturnLastMid
    \/ TabRaise
    \/ TabNoHistory
    \/ TabUndervalued
    \/ TabOvervalued

SpecDeepDive == InitDeepDive /\ [][NextDeepDive]_vars

-----------------------------------------------------------------------------
(* Properties of the Deep Dive Valuation tab *)

\* the tab has been drawn
Shown == pc = "shown"

ValuationShown == message \in {"UNDERVALUED", "OVERVALUED"}

\* the implied growth and the historical growth are both numbers
BothValid == ret.tag = "num" /\ hist_growth.tag = "num"

\* C15: UNDERVALUED or OVERVALUED is shown only when the implied growth and
\* the historical growth are both valid numbers; when both are valid it is
\* UNDERVALUED exactly when implied < historical and OVERVALUED otherwise.
C15_ValuationOnlyWhenValid ==
    Shown =>
        /\ ValuationShown => BothValid
        /\ BothValid =>
               message = (IF ret.v < hist_growth.v THEN "UNDERVALUED" ELSE "OVERVALUED")

=============================================================================
